---- MODULE Spec2Model ----
(***************************************************************************)
(* pgcopydb, src/bin/pgcopydb/ld_apply.c: the logical-replication catch-up *)
(* applier.  The applier replays SQL files (one per WAL segment of the     *)
(* source) on a target database and tracks its progress with a replication *)
(* origin.  The state machine below follows stream_apply_catchup and the   *)
(* functions it calls, one line of a SQL file per step, together with the  *)
(* three actors the applier observes: the producer of the SQL files, the   *)
(* writer of the pgcopydb sentinel and the sender of shutdown signals.     *)
(***************************************************************************)
EXTENDS Integers, Sequences, FiniteSets, TLC

(***************************************************************************)
(* Bounds of the model.                                                    *)
(***************************************************************************)
\* size of one WAL segment, in LSN units (read from the context file)
WalSegSz == 4
\* last LSN the producer writes
MaxLSN == 7
\* executions of one statement are counted up to MaxDup
MaxDup == 2
\* number of times the applier process is started again
MaxRestarts == 1

InvalidXLogRecPtr == 0
\* a quarter of 0x100000000, the size of one xlogid
XLogIdQuarter == 1073741824
Timeline == 1

LSNs == 0 .. MaxLSN
MaxSegNo == MaxLSN \div WalSegSz
SegNos == 0 .. MaxSegNo

\* values of --endpos and of the sentinel's endpos
EndposSet == {0, 2}
\* values of the sentinel's startpos
StartposSet == {0, 2}

DMLActions == {"INSERT", "UPDATE", "DELETE", "TRUNCATE"}

VARIABLES
  files,         \* producer: segment number -> lines of the SQL file
  walLSN,        \* producer: LSN of the next record
  srcXid,        \* producer: xid of the source transaction being written, or 0
  specs,         \* StreamSpecs: mode and --endpos
  signals,       \* asked_to_stop, asked_to_stop_fast, asked_to_quit
  pc,            \* position of the applier in stream_apply_catchup
  context,       \* StreamApplyContext
  content,       \* stream_apply_file: content.count, i, reachedStartingPosition
  target,        \* target database: durable state and the applier's session
  ops,           \* the statements the last step sent to the target, or its sentinel sync
  run            \* bookkeeping of the current run of the applier

vars == <<files, walLSN, srcXid, specs, signals, pc, context,
          content, target, ops, run>>

(***************************************************************************)
(* SQL files.  A line is one action of the transform stage; BEGIN, COMMIT, *)
(* SWITCH and KEEPALIVE lines carry their metadata.  lsn and xid of a DML  *)
(* line are not in the file: they name the line in the properties.         *)
(***************************************************************************)
Line(kind, lsn, xid) == [kind |-> kind, lsn |-> lsn, xid |-> xid]

Min(a, b) == IF a < b THEN a ELSE b

\* access/xlog_internal.h: segment number of an LSN
XLByteToSeg(lsn, segsz) == lsn \div segsz

\* 0x100000000 / segsz
XLogSegmentsPerXLogId(segsz) == 4 * (XLogIdQuarter \div segsz)

\* access/xlog_internal.h: the WAL file name, as (timeline, high, low)
XLogFileName(tli, segno, segsz) ==
  <<tli, segno \div XLogSegmentsPerXLogId(segsz),
         segno % XLogSegmentsPerXLogId(segsz)>>

\* the segment whose SQL file has the given name
SegNoOfName(name) == name[2] * XLogSegmentsPerXLogId(WalSegSz) + name[3]

computeSQLFileName(ctx) ==
  [ctx EXCEPT !.sqlFileName =
     XLogFileName(Timeline, XLByteToSeg(ctx.previousLSN, WalSegSz), WalSegSz)]

file_exists(name) ==
  /\ name # <<>>
  /\ name[1] = Timeline
  /\ SegNoOfName(name) \in SegNos
  /\ Len(files[SegNoOfName(name)]) > 0

FileLines(name) == files[SegNoOfName(name)]

(***************************************************************************)
(* The producer (prefetch and transform stages): it writes the records of  *)
(* the source in LSN order, a record of segment k to the file of segment   *)
(* k, and closes a file with a SWITCH line whose LSN is the start of the   *)
(* next segment.  Transactions are written one after the other, BEGIN,     *)
(* DML lines, COMMIT; a KEEPALIVE is written between two transactions.     *)
(***************************************************************************)
Append1(seg, l) == files' = [files EXCEPT ![seg] = Append(@, l)]

\* The applier looks at the files at the top of the driver's loop only (the
\* existence test and read_file); the lines it replays afterwards are the
\* ones read then.  A line written at any other moment is seen exactly as
\* one written right before the next look, so the producer's steps are taken
\* there.
ProducerIsObserved ==
  /\ pc = "loop"
  /\ ~(signals.asked_to_stop \/ signals.asked_to_stop_fast \/ signals.asked_to_quit)

AtSegmentStart(lsn) == lsn % WalSegSz = 0

ProduceBegin ==
  /\ ProducerIsObserved
  /\ walLSN <= MaxLSN /\ ~AtSegmentStart(walLSN) /\ srcXid = 0
  /\ Append1(XLByteToSeg(walLSN, WalSegSz), Line("BEGIN", walLSN, walLSN))
  /\ srcXid' = walLSN
  /\ walLSN' = walLSN + 1
  /\ ops' = <<>>
  /\ UNCHANGED <<specs, signals, pc, context, content, target, run>>

ProduceDML ==
  /\ ProducerIsObserved
  /\ walLSN <= MaxLSN /\ ~AtSegmentStart(walLSN) /\ srcXid # 0
  /\ Append1(XLByteToSeg(walLSN, WalSegSz), Line("INSERT", walLSN, srcXid))
  /\ walLSN' = walLSN + 1
  /\ ops' = <<>>
  /\ UNCHANGED <<srcXid, specs, signals, pc, context, content, target, run>>

ProduceCommit ==
  /\ ProducerIsObserved
  /\ walLSN <= MaxLSN /\ ~AtSegmentStart(walLSN) /\ srcXid # 0
  /\ Append1(XLByteToSeg(walLSN, WalSegSz), Line("COMMIT", walLSN, srcXid))
  /\ srcXid' = 0
  /\ walLSN' = walLSN + 1
  /\ ops' = <<>>
  /\ UNCHANGED <<specs, signals, pc, context, content, target, run>>

ProduceKeepalive ==
  /\ ProducerIsObserved
  /\ walLSN <= MaxLSN /\ ~AtSegmentStart(walLSN) /\ srcXid = 0
  /\ Append1(XLByteToSeg(walLSN, WalSegSz), Line("KEEPALIVE", walLSN, 0))
  /\ walLSN' = walLSN + 1
  /\ ops' = <<>>
  /\ UNCHANGED <<srcXid, specs, signals, pc, context, content, target, run>>

ProduceSwitch ==
  /\ ProducerIsObserved
  /\ walLSN <= MaxLSN /\ AtSegmentStart(walLSN)
  /\ Append1(XLByteToSeg(walLSN, WalSegSz) - 1, Line("SWITCH", walLSN, 0))
  /\ walLSN' = walLSN + 1
  /\ ops' = <<>>
  /\ UNCHANGED <<srcXid, specs, signals, pc, context, content, target, run>>

(***************************************************************************)
(* The target database and the applier's session on it.  origin, rows and  *)
(* advanced are durable; the other fields are the state of the session.    *)
(* rows counts, per DML line, how many times its effect was committed;     *)
(* advanced holds the source transactions for which a committed target     *)
(* transaction had called originXactSetup.                                 *)
(***************************************************************************)
NoRows == [l \in LSNs |-> 0]

ClosedSession(t) ==
  [t EXCEPT !.inXact = FALSE, !.xactLSN = InvalidXLogRecPtr,
            !.pending = NoRows, !.xactFor = {}]

\* BEGIN; inside a transaction the server warns and the transaction goes on
pgsql_begin(t) ==
  IF t.inXact THEN t ELSE [t EXCEPT !.inXact = TRUE]

\* pg_replication_origin_xact_setup(lsn, timestamp)
pgsql_replication_origin_xact_setup(t, line) ==
  IF t.inXact
    THEN [t EXCEPT !.xactLSN = line.lsn,
                   !.xactFor = IF line.kind = "BEGIN" THEN @ \cup {line.xid} ELSE @]
    ELSE t

\* a DML statement; outside a transaction it commits on its own
pgsql_execute(t, line) ==
  IF t.inXact
    THEN [t EXCEPT !.pending[line.lsn] = Min(@ + 1, MaxDup)]
    ELSE [t EXCEPT !.rows[line.lsn] = Min(@ + 1, MaxDup)]

\* COMMIT: the rows and the origin advance become durable together
pgsql_execute_commit(t) ==
  IF t.inXact
    THEN ClosedSession(
           [t EXCEPT !.origin = IF t.xactLSN # InvalidXLogRecPtr THEN t.xactLSN ELSE @,
                     !.rows = [l \in LSNs |-> Min(@[l] + t.pending[l], MaxDup)],
                     !.advanced = @ \cup t.xactFor])
    ELSE t

\* closing the connection rolls back the open transaction
pgsql_finish(t) == [ClosedSession(t) EXCEPT !.connected = FALSE]

pgsql_replication_origin_progress(t) == t.origin

Statement(t, name, line) ==
  CASE name = "begin" -> pgsql_begin(t)
    [] name = "originXactSetup" -> pgsql_replication_origin_xact_setup(t, line)
    [] name = "execute" -> pgsql_execute(t, line)
    [] name = "COMMIT" -> pgsql_execute_commit(t)

OpRecord(t, name, line, ok) ==
  [op |-> name, kind |-> line.kind, lsn |-> line.lsn, inXact |-> t.inXact, ok |-> ok]

(***************************************************************************)
(* The statements of one line, sent in order; statement number fail (when  *)
(* not 0) fails, and the statements after it are not sent.                 *)
(***************************************************************************)
\* a statement that fails is skipped and the statements after it are sent
RECURSIVE Execute_skipping(_, _, _, _, _)
Execute_skipping(t, names, line, fail, log) ==
  IF names = <<>> THEN [target |-> t, log |-> log]
  ELSE IF fail = Len(log) + 1
    THEN Execute_skipping(t, Tail(names), line, fail,
                          Append(log, OpRecord(t, Head(names), line, FALSE)))
  ELSE Execute_skipping(Statement(t, Head(names), line), Tail(names), line, fail,
                        Append(log, OpRecord(t, Head(names), line, TRUE)))

RECURSIVE Execute(_, _, _, _, _)
Execute(t, names, line, fail, log) ==
  IF names = <<>> THEN [target |-> t, log |-> log]
  ELSE IF fail = Len(log) + 1
    THEN [target |-> t, log |-> Append(log, OpRecord(t, Head(names), line, FALSE))]
  ELSE Execute(Statement(t, Head(names), line), Tail(names), line, fail,
               Append(log, OpRecord(t, Head(names), line, TRUE)))

(***************************************************************************)
(* The applier process.                                                    *)
(***************************************************************************)
NoFileName == <<>>

\* StreamApplyContext context = { 0 }
ZeroContext ==
  [previousLSN |-> InvalidXLogRecPtr, startpos |-> InvalidXLogRecPtr,
   endpos |-> InvalidXLogRecPtr, apply |-> FALSE, reachedEndPos |-> FALSE,
   sqlFileName |-> NoFileName]

ZeroContent ==
  [count |-> 0, i |-> 0, reachedStartingPosition |-> FALSE,
   currentSQLFileName |-> NoFileName]

NoSignal ==
  [asked_to_stop |-> FALSE, asked_to_stop_fast |-> FALSE, asked_to_quit |-> FALSE]

ShutdownRequested ==
  signals.asked_to_stop \/ signals.asked_to_stop_fast \/ signals.asked_to_quit

NewRun(n) == [restarts |-> n, bootLSN |-> InvalidXLogRecPtr, executed |-> {}]

\* stream_apply_catchup starts with the sentinel wait in prefetch mode
EntryPc(sp) == IF sp.mode = "prefetch" THEN "wait" ELSE "setup"

\* stream_apply_file returns false and so does stream_apply_catchup: the
\* process ends, its locals are gone and its connection is closed
ReturnFalse(t) ==
  /\ pc' = "failed"
  /\ context' = ZeroContext
  /\ content' = ZeroContent
  /\ target' = pgsql_finish(t)

Init ==
  /\ files = [s \in SegNos |-> <<>>]
  /\ walLSN = 1
  /\ srcXid = 0
  /\ specs \in [mode : {"prefetch", "replay"}, endpos : EndposSet]
  /\ signals = NoSignal
  /\ pc = EntryPc(specs)
  /\ context = ZeroContext
  /\ content = ZeroContent
  /\ target = [origin |-> InvalidXLogRecPtr, rows |-> NoRows, advanced |-> {},
               connected |-> FALSE, inXact |-> FALSE,
               xactLSN |-> InvalidXLogRecPtr, pending |-> NoRows, xactFor |-> {}]
  /\ ops = <<>>
  /\ run = NewRun(0)

(***************************************************************************)
(* The sentinel is a record on the source database that its writer may     *)
(* update at any time.  The applier reads it in pgsql_get_sentinel and in  *)
(* pgsql_sync_sentinel_apply: a read that succeeds returns the record as   *)
(* the writer has left it, any record of Sentinels.  The replay_lsn that   *)
(* the sync writes is context.previousLSN; the applier never reads it.     *)
(***************************************************************************)
Sentinels == [startpos : StartposSet, endpos : EndposSet, apply : BOOLEAN]

\* CopyDBSentinel sentinel = { 0 }
ZeroSentinel ==
  [startpos |-> InvalidXLogRecPtr, endpos |-> InvalidXLogRecPtr, apply |-> FALSE]

(***************************************************************************)
(* stream_apply_wait_for_sentinel, one iteration of its loop.              *)
(***************************************************************************)
\* the wait ends at any read that succeeds, whatever the value of apply
SentinelEnablesApply_anyRead(got, s) == got

\* pgsql_get_sentinel succeeded and sentinel.apply is set
SentinelEnablesApply(got, s) == got /\ s.apply

stream_apply_wait_for_sentinel ==
  /\ pc = "wait"
  /\ IF ShutdownRequested
       THEN ReturnFalse(target) /\ ops' = <<>>
       ELSE \E got \in BOOLEAN :      \* pgsql_get_sentinel
            \E s \in IF got THEN Sentinels ELSE {ZeroSentinel} :
              /\ ops' = <<>>
              /\ IF SentinelEnablesApply(got, s)
                   THEN /\ context' = [context EXCEPT !.startpos = s.startpos,
                                                      !.endpos = s.endpos,
                                                      !.apply = s.apply]
                        /\ pc' = "setup"
                        /\ UNCHANGED <<content, target>>
                   ELSE UNCHANGED <<pc, context, content, target>>
  /\ UNCHANGED <<files, walLSN, srcXid, specs, signals, run>>

(***************************************************************************)
(* stream_read_context and setupReplicationOrigin.                         *)
(***************************************************************************)
\* the progress of the origin is not kept: previousLSN stays zero
OriginProgress_unread(ctx, progress) == ctx

\* context->previousLSN, from pgsql_replication_origin_progress
OriginProgress(ctx, progress) == [ctx EXCEPT !.previousLSN = progress]

EndposPrecedence(ctx, endpos) ==
  IF endpos # InvalidXLogRecPtr THEN [ctx EXCEPT !.endpos = endpos] ELSE ctx

setupReplicationOrigin ==
  /\ pc = "setup"
  /\ ops' = <<>>
  /\ \E outcome \in {"ok", "context", "origin"} :
       CASE outcome = "context" ->       \* stream_read_context fails
              /\ ReturnFalse(target)
              /\ UNCHANGED run
         [] outcome = "origin" ->        \* an origin statement fails
              /\ ReturnFalse(target)
              /\ UNCHANGED run
         [] outcome = "ok" ->
              /\ context' = computeSQLFileName(
                   OriginProgress(EndposPrecedence(context, specs.endpos),
                                  pgsql_replication_origin_progress(target)))
              /\ target' = [target EXCEPT !.connected = TRUE]
              /\ run' = [run EXCEPT !.bootLSN = pgsql_replication_origin_progress(target)]
              /\ pc' = "loop"
              /\ UNCHANGED content
  /\ UNCHANGED <<files, walLSN, srcXid, specs, signals>>

(***************************************************************************)
(* stream_apply_catchup, the top of its loop.                              *)
(***************************************************************************)
catchup_shutdown ==
  /\ pc = "loop"
  /\ ShutdownRequested
  /\ content' = [content EXCEPT !.currentSQLFileName = context.sqlFileName]
  /\ target' = pgsql_finish(target)
  /\ pc' = "done"
  /\ ops' = <<>>
  /\ UNCHANGED <<files, walLSN, srcXid, specs, signals, context, run>>

catchup_wait_for_file ==
  /\ pc = "loop"
  /\ ~ShutdownRequested
  /\ ~file_exists(context.sqlFileName)
  /\ content' = [content EXCEPT !.currentSQLFileName = context.sqlFileName]
  /\ ops' = <<>>
  /\ UNCHANGED <<files, walLSN, srcXid, specs, signals, pc, context, target, run>>

\* stream_apply_file, up to its loop: the file is read whole
stream_apply_file_read ==
  /\ pc = "loop"
  /\ ~ShutdownRequested
  /\ file_exists(context.sqlFileName)
  /\ ops' = <<>>
  /\ \E readOk \in BOOLEAN :
       IF readOk
         THEN /\ content' = [count |-> Len(FileLines(context.sqlFileName)),
                             i |-> 0,
                             reachedStartingPosition |-> FALSE,
                             currentSQLFileName |-> context.sqlFileName]
              /\ pc' = "file"
              /\ UNCHANGED <<context, target>>
         ELSE ReturnFalse(target)
  /\ UNCHANGED <<files, walLSN, srcXid, specs, signals, run>>

(***************************************************************************)
(* stream_apply_file, one line of the file per step.                       *)
(***************************************************************************)
\* parseSQLAction: the action of a line, from its tag
parseSQLAction(line) ==
  IF line.kind \in {"BEGIN", "COMMIT", "SWITCH", "KEEPALIVE"} \cup DMLActions
    THEN line.kind
    ELSE "UNKNOWN"

\* the starting position counts as reached at the origin's own LSN
ReachedStartingPosition_inclusive(reached, previousLSN, lsn) ==
  IF ~reached THEN previousLSN <= lsn ELSE reached

\* the flag starts true: every line of every read is replayed
ReachedStartingPosition_always(reached, previousLSN, lsn) == TRUE

\* did we reach the starting LSN position now?
ReachedStartingPosition(reached, previousLSN, lsn) ==
  IF ~reached THEN previousLSN < lsn ELSE reached

\* the endpos test of BEGIN, of COMMIT and of the driver
EndposReached(endpos, lsn) ==
  endpos # InvalidXLogRecPtr /\ endpos <= lsn

\* the KEEPALIVE pre-check written as the test of BEGIN
EndposPassed_asBegin(endpos, lsn) ==
  endpos # InvalidXLogRecPtr /\ endpos <= lsn

\* the endpos test of KEEPALIVE before it is applied
EndposPassed(endpos, lsn) ==
  endpos # InvalidXLogRecPtr /\ endpos < lsn

\* context->previousLSN = metadata.lsn, then the endpos test at COMMIT time
CommittedAt(ctx, lsn) ==
  LET c == [ctx EXCEPT !.previousLSN = lsn]
  IN  IF EndposReached(c.endpos, c.previousLSN)
        THEN [c EXCEPT !.reachedEndPos = TRUE]
        ELSE c

\* context->previousLSN = metadata.lsn of a SWITCH line
SwitchedTo(ctx, lsn) == [ctx EXCEPT !.previousLSN = lsn]

InFileLoop ==
  /\ pc = "file"
  /\ content.i < content.count
  /\ ~context.reachedEndPos

CurrentLine == FileLines(context.sqlFileName)[content.i + 1]

NextLine(reached) ==
  [content EXCEPT !.i = @ + 1, !.reachedStartingPosition = reached]

\* a line that sends nothing to the target: break or continue
NoStatement(reached, ctx) ==
  /\ content' = NextLine(reached)
  /\ context' = ctx
  /\ ops' = <<>>
  /\ UNCHANGED <<pc, target, run>>

\* the statements of a line; when one fails stream_apply_file returns false
SendStatements(line, names, reached, ctx) ==
  \E fail \in 0 .. Len(names) :
    LET r == Execute(target, names, line, fail, <<>>)
    IN  /\ ops' = r.log
        /\ run' = IF fail = 1 THEN run
                  ELSE [run EXCEPT !.executed = @ \cup {line.lsn}]
        /\ IF fail = 0
             THEN /\ content' = NextLine(reached)
                  /\ context' = ctx
                  /\ target' = r.target
                  /\ UNCHANGED pc
             ELSE ReturnFalse(r.target)

stream_apply_file_switch ==
  /\ InFileLoop
  /\ parseSQLAction(CurrentLine) = "SWITCH"
  /\ IF content.i # content.count - 1
       THEN ReturnFalse(target) /\ ops' = <<>> /\ UNCHANGED run
       ELSE NoStatement(content.reachedStartingPosition,
                        SwitchedTo(context, CurrentLine.lsn))
  /\ UNCHANGED <<files, walLSN, srcXid, specs, signals>>

stream_apply_file_begin ==
  /\ InFileLoop
  /\ parseSQLAction(CurrentLine) = "BEGIN"
  /\ LET line == CurrentLine
         reached == ReachedStartingPosition(content.reachedStartingPosition,
                                            context.previousLSN, line.lsn)
     IN  IF line.lsn = InvalidXLogRecPtr
           THEN ReturnFalse(target) /\ ops' = <<>> /\ UNCHANGED run
         ELSE IF EndposReached(context.endpos, line.lsn)
           THEN NoStatement(reached, [context EXCEPT !.reachedEndPos = TRUE])
         ELSE IF ~reached
           THEN NoStatement(reached, context)
         ELSE SendStatements(line, <<"begin", "originXactSetup">>, reached, context)
  /\ UNCHANGED <<files, walLSN, srcXid, specs, signals>>

stream_apply_file_commit ==
  /\ InFileLoop
  /\ parseSQLAction(CurrentLine) = "COMMIT"
  /\ LET line == CurrentLine
         reached == content.reachedStartingPosition
     IN  IF ~reached
           THEN NoStatement(reached, context)
           ELSE SendStatements(line, <<"COMMIT">>, reached,
                               CommittedAt(context, line.lsn))
  /\ UNCHANGED <<files, walLSN, srcXid, specs, signals>>

stream_apply_file_keepalive ==
  /\ InFileLoop
  /\ parseSQLAction(CurrentLine) = "KEEPALIVE"
  /\ LET line == CurrentLine
         reached == ReachedStartingPosition(content.reachedStartingPosition,
                                            context.previousLSN, line.lsn)
     IN  IF line.lsn = InvalidXLogRecPtr
           THEN ReturnFalse(target) /\ ops' = <<>> /\ UNCHANGED run
         ELSE IF EndposPassed(context.endpos, line.lsn)
           THEN NoStatement(reached, [context EXCEPT !.reachedEndPos = TRUE])
         ELSE IF ~reached
           THEN NoStatement(reached, context)
         ELSE SendStatements(line, <<"begin", "originXactSetup", "COMMIT">>,
                             reached, CommittedAt(context, line.lsn))
  /\ UNCHANGED <<files, walLSN, srcXid, specs, signals>>

\* INSERT, UPDATE, DELETE, TRUNCATE, and the default case of the switch
stream_apply_file_dml ==
  /\ InFileLoop
  /\ parseSQLAction(CurrentLine) \notin {"BEGIN", "COMMIT", "SWITCH", "KEEPALIVE"}
  /\ LET line == CurrentLine
         reached == content.reachedStartingPosition
     IN  IF parseSQLAction(line) = "UNKNOWN"
           THEN ReturnFalse(target) /\ ops' = <<>> /\ UNCHANGED run
         ELSE IF ~reached
           THEN NoStatement(reached, context)
         ELSE SendStatements(line, <<"execute">>, reached, context)
  /\ UNCHANGED <<files, walLSN, srcXid, specs, signals>>

(***************************************************************************)
(* stream_apply_catchup after stream_apply_file returned true: the sync    *)
(* with the sentinel, the endpos test and the name of the next file.       *)
(***************************************************************************)
\* stream_apply_sync_sentinel: the values read, zero when the sync failed
SyncedContext(ctx, outcome, s) ==
  IF outcome = "init_failed"
    THEN ctx
    ELSE [ctx EXCEPT !.apply = s.apply, !.endpos = s.endpos, !.startpos = s.startpos]

\* pgsql_sync_sentinel_apply(&src, context->previousLSN, &sentinel): the
\* replay_lsn sent, and whether the sync succeeded
SyncRecord(ctx, t, outcome) ==
  [op |-> "syncSentinel", kind |-> "SENTINEL", lsn |-> ctx.previousLSN,
   inXact |-> t.inXact, ok |-> outcome = "ok"]

\* the endpos test of the driver after the sync
DriverEndpos(ctx) ==
  IF ~ctx.reachedEndPos /\ EndposReached(ctx.endpos, ctx.previousLSN)
    THEN [ctx EXCEPT !.reachedEndPos = TRUE]
    ELSE ctx

catchup_after_file ==
  /\ pc = "file"
  /\ ~(content.i < content.count /\ ~context.reachedEndPos)
  /\ \E outcome \in {"init_failed", "sync_failed", "ok"} :
     \E s \in IF outcome = "ok" THEN Sentinels ELSE {ZeroSentinel} :
       LET ctx == DriverEndpos(SyncedContext(context, outcome, s))
       IN  /\ ops' = IF outcome = "init_failed" THEN <<>>
                     ELSE <<SyncRecord(context, target, outcome)>>
           /\ IF ctx.reachedEndPos
                THEN /\ context' = ctx
                     /\ target' = pgsql_finish(target)
                     /\ pc' = "done"
                ELSE /\ context' = computeSQLFileName(ctx)
                     /\ pc' = "loop"
                     /\ UNCHANGED target
  /\ content' = [ZeroContent EXCEPT !.currentSQLFileName = content.currentSQLFileName]
  /\ UNCHANGED <<files, walLSN, srcXid, specs, signals, run>>

(***************************************************************************)
(* The environment of the applier.                                         *)
(***************************************************************************)
\* The flags are read in the wait loop and at the top of the driver's loop.
signal ==
  /\ pc \in {"wait", "loop"}
  /\ ~ShutdownRequested
  /\ \E f \in {"asked_to_stop", "asked_to_stop_fast", "asked_to_quit"} :
       signals' = [signals EXCEPT ![f] = TRUE]
  /\ ops' = <<>>
  /\ UNCHANGED <<files, walLSN, srcXid, specs, pc, context, content, target, run>>

\* The process ends (it returned, or it was interrupted at any point), its
\* connection is closed, and the applier is started again.
restart ==
  /\ run.restarts < MaxRestarts
  /\ target' = pgsql_finish(target)
  /\ pc' = EntryPc(specs)
  /\ context' = ZeroContext
  /\ content' = ZeroContent
  /\ signals' = NoSignal
  /\ ops' = <<>>
  /\ run' = NewRun(run.restarts + 1)
  /\ UNCHANGED <<files, walLSN, srcXid, specs>>

Next ==
  \/ ProduceBegin
  \/ ProduceDML
  \/ ProduceCommit
  \/ ProduceKeepalive
  \/ ProduceSwitch
  \/ stream_apply_wait_for_sentinel
  \/ setupReplicationOrigin
  \/ catchup_shutdown
  \/ catchup_wait_for_file
  \/ stream_apply_file_read
  \/ stream_apply_file_switch
  \/ stream_apply_file_begin
  \/ stream_apply_file_commit
  \/ stream_apply_file_keepalive
  \/ stream_apply_file_dml
  \/ catchup_after_file
  \/ signal
  \/ restart

Spec == Init /\ [][Next]_vars

(***************************************************************************)
(* The source transactions, as the producer has written them so far.  A    *)
(* transaction is named by its xid; its LSN is the LSN of its BEGIN.       *)
(***************************************************************************)
AllLines == UNION { { files[s][k] : k \in 1 .. Len(files[s]) } : s \in SegNos }

LineAtLSN(l) == CHOOSE x \in AllLines : x.lsn = l

SourceXids == { x.xid : x \in { y \in AllLines : y.kind = "BEGIN" } }

DMLOf(T) == { x.lsn : x \in { y \in AllLines : y.kind \in DMLActions /\ y.xid = T } }

CommitsOf(T) == { x.lsn : x \in { y \in AllLines : y.kind = "COMMIT" /\ y.xid = T } }

(***************************************************************************)
(* C1 -- Atomic advance: in every reachable state, for each source         *)
(* transaction T, the target durably holds T's DML effects if and only if  *)
(* the origin was advanced by the commit of the target transaction in      *)
(* which originXactSetup was called for T.                                 *)
(***************************************************************************)
C1_AtomicAdvance ==
  \A T \in SourceXids :
    /\ (\E l \in DMLOf(T) : target.rows[l] > 0) => T \in target.advanced
    /\ T \in target.advanced => \A l \in DMLOf(T) : target.rows[l] > 0

(***************************************************************************)
(* C2 -- Startpos skip: once setupReplicationOrigin has read the origin    *)
(* progress P, no statement of a BEGIN, DML or COMMIT line of a            *)
(* transaction whose LSN is <= P is sent to the target in that run.        *)
(***************************************************************************)
C2_StartposSkip ==
  \A k \in DOMAIN ops :
    ops[k].kind \in {"BEGIN", "COMMIT"} \cup DMLActions
      => LineAtLSN(ops[k].lsn).xid > run.bootLSN

\* a run that started at P > 0 has passed the BEGIN of a transaction at or
\* below P without replaying it and has replayed a line of a later one
C2_Witness ==
  /\ pc = "file"
  /\ run.bootLSN > InvalidXLogRecPtr
  /\ \E k \in 1 .. content.i :
       LET l == FileLines(context.sqlFileName)[k]
       IN  l.kind = "BEGIN" /\ l.lsn <= run.bootLSN /\ l.lsn \notin run.executed
  /\ \E k \in DOMAIN ops : ops[k].kind = "BEGIN" /\ ops[k].ok

(***************************************************************************)
(* C3 -- Monotone progress: the LSN committed as origin position (the LSN  *)
(* passed to originXactSetup of each committed BEGIN or KEEPALIVE          *)
(* transaction) never decreases, across files, re-reads and restarts.      *)
(***************************************************************************)
C3_MonotoneProgress == [][target'.origin >= target.origin]_vars

\* after a restart at P > 0, a commit has moved the origin beyond P
C3_Witness ==
  /\ run.restarts > 0
  /\ run.bootLSN > InvalidXLogRecPtr
  /\ target.origin > run.bootLSN
  /\ \E k \in DOMAIN ops : ops[k].op = "COMMIT" /\ ops[k].ok /\ ops[k].inXact

(***************************************************************************)
(* C4 -- Endpos obedience: whenever stream_apply_catchup terminates with   *)
(* reachedEndPos true, the origin is >= the endpos in force and no         *)
(* transaction with LSN > endpos has been applied to the target.           *)
(***************************************************************************)
C4_EndposObedience ==
  (pc = "done" /\ context.reachedEndPos /\ context.endpos # InvalidXLogRecPtr)
    => /\ target.origin >= context.endpos
       /\ \A T \in SourceXids :
            (T \in target.advanced \/ \E l \in DMLOf(T) : target.rows[l] > 0)
              => T <= context.endpos

(***************************************************************************)
(* C5 -- Tail follow: when a file is read again after the producer         *)
(* appended lines, no BEGIN, DML or COMMIT line that was executed on the   *)
(* target in an earlier read of the run is executed again.                 *)
(***************************************************************************)
C5_TailFollow ==
  [][\A k \in DOMAIN ops' :
       ops'[k].kind \in {"BEGIN", "COMMIT"} \cup DMLActions
         => ops'[k].lsn \notin run.executed]_vars

(***************************************************************************)
(* C6 -- Transaction bracketing: begin() is only issued when no            *)
(* transaction is open on the session, and a transaction opened for a      *)
(* BEGIN line is ended by the COMMIT line with the same xid (never by the  *)
(* COMMIT of another line), also across a SWITCH and across re-reads.      *)
(***************************************************************************)
C6_TransactionBracketing ==
  [][\A k \in DOMAIN ops' :
       /\ ops'[k].op = "begin" => ~ops'[k].inXact
       /\ (ops'[k].op = "COMMIT" /\ ops'[k].kind = "COMMIT")
            => target.xactFor \subseteq {LineAtLSN(ops'[k].lsn).xid}
       /\ (ops'[k].op = "COMMIT" /\ ops'[k].kind = "KEEPALIVE")
            => target.xactFor = {}]_vars

(***************************************************************************)
(* C7 -- Endpos mid-transaction: begin() is not issued for a transaction   *)
(* whose BEGIN LSN is below endpos and whose COMMIT LSN is at or above     *)
(* endpos.                                                                 *)
(***************************************************************************)
C7_EndposMidTransaction ==
  \A k \in DOMAIN ops :
    (/\ ops[k].op = "begin"
     /\ ops[k].kind = "BEGIN"
     /\ context.endpos # InvalidXLogRecPtr
     /\ ops[k].lsn < context.endpos)
      => \A c \in CommitsOf(ops[k].lsn) : c < context.endpos

(***************************************************************************)
(* C8 -- Keepalive at endpos: with endpos set and previousLSN < L, a       *)
(* KEEPALIVE line with LSN L is applied as the origin-only transaction     *)
(* begin, originXactSetup(L), COMMIT exactly when L <= endpos; when        *)
(* L = endpos the origin advances to endpos and reachedEndPos becomes      *)
(* true; when L > endpos nothing is executed and reachedEndPos becomes     *)
(* true.  A statement that fails ends the run.                             *)
(***************************************************************************)
C8_KeepaliveAtEndpos ==
  [][(/\ InFileLoop
      /\ CurrentLine.kind = "KEEPALIVE"
      /\ context.endpos # InvalidXLogRecPtr
      /\ context.previousLSN < CurrentLine.lsn
      /\ pc' \in {"file", "failed"})
       => LET L == CurrentLine.lsn
          IN  IF L <= context.endpos
                THEN /\ Len(ops') >= 1
                     /\ ops'[1].op = "begin"
                     /\ pc' = "file" =>
                          /\ [k \in DOMAIN ops' |-> ops'[k].op]
                               = <<"begin", "originXactSetup", "COMMIT">>
                          /\ \A k \in DOMAIN ops' : ops'[k].lsn = L /\ ops'[k].ok
                          /\ target'.origin = L
                          /\ context'.reachedEndPos = (L = context.endpos)
                ELSE /\ pc' = "file"
                     /\ ops' = <<>>
                     /\ target' = target
                     /\ context'.reachedEndPos]_vars

\* the KEEPALIVE at endpos has been applied
C8_Witness ==
  /\ pc = "file"
  /\ Len(ops) = 3
  /\ \A k \in DOMAIN ops : ops[k].kind = "KEEPALIVE" /\ ops[k].ok
                             /\ ops[k].lsn = context.endpos
  /\ target.origin = context.endpos
  /\ context.reachedEndPos

(***************************************************************************)
(* C9 -- Origin equals committed LSN: after a user transaction has been    *)
(* committed on the target, the origin position is the LSN of its COMMIT   *)
(* record, the value of previousLSN.                                       *)
(***************************************************************************)
C9_OriginEqualsCommitLSN ==
  \A k \in DOMAIN ops :
    (ops[k].op = "COMMIT" /\ ops[k].kind = "COMMIT" /\ ops[k].ok /\ ops[k].inXact)
      => /\ target.origin = ops[k].lsn
         /\ target.origin = context.previousLSN

(***************************************************************************)
(* C10 -- previousLSN is monotone: after setupReplicationOrigin has set    *)
(* it, no step of the driver or of stream_apply_file assigns previousLSN   *)
(* a smaller value.                                                        *)
(***************************************************************************)
C10_PreviousLSNMonotone ==
  [][(/\ pc \in {"loop", "file"}
      /\ pc' \in {"loop", "file", "done"}
      /\ run'.restarts = run.restarts)
       => context'.previousLSN >= context.previousLSN]_vars

\* a SWITCH was processed while the starting position had not been reached,
\* in a run that started from an origin beyond zero
C10_Witness ==
  /\ pc = "file"
  /\ run.bootLSN > InvalidXLogRecPtr
  /\ content.count > 0
  /\ content.i = content.count
  /\ ~content.reachedStartingPosition
  /\ FileLines(context.sqlFileName)[content.count].kind = "SWITCH"
  /\ context.previousLSN = FileLines(context.sqlFileName)[content.count].lsn
  /\ context.previousLSN > run.bootLSN

(***************************************************************************)
(* C11 -- previousLSN is never modified while a transaction is open on     *)
(* the target session: every assignment to previousLSN by a line of a file *)
(* (COMMIT, KEEPALIVE, SWITCH) leaves it changed only in a state where the *)
(* session has no open transaction.                                        *)
(***************************************************************************)
C11_PreviousLSNOutsideTransaction ==
  [][(/\ pc = "file"
      /\ pc' = "file"
      /\ context'.previousLSN # context.previousLSN)
       => ~target'.inXact]_vars

(***************************************************************************)
(* C12 -- Clean exit on signal: when a shutdown flag is raised, the next   *)
(* step of stream_apply_catchup that reads the flags ends it with success, *)
(* in the sentinel wait as at the top of the driver's loop, and the origin *)
(* is left unchanged.                                                      *)
(***************************************************************************)
C12_CleanExitOnSignal ==
  [][(/\ ShutdownRequested
      /\ pc \in {"wait", "loop"}
      /\ run' = run
      /\ pc' # pc)
       => /\ pc' = "done"
          /\ target'.origin = target.origin]_vars

(***************************************************************************)
(* C13 -- Source order is preserved: within a run the files replayed by    *)
(* the driver have non-decreasing WAL segment numbers, and a transaction   *)
(* is committed on the target only after every transaction committed       *)
(* before it, in the order of the source.                                  *)
(***************************************************************************)
C13_SourceOrder ==
  [][/\ (/\ pc \in {"loop", "file"}
         /\ pc' \in {"loop", "file", "done"}
         /\ run'.restarts = run.restarts)
          => SegNoOfName(context'.sqlFileName) >= SegNoOfName(context.sqlFileName)
     /\ (\E k \in DOMAIN ops' :
           ops'[k].op = "COMMIT" /\ ops'[k].ok /\ ops'[k].inXact)
          => \A T \in target.xactFor : \A U \in target.advanced : U < T]_vars

\* two source transactions have been committed, the second one from the
\* file of a later segment
C13_Witness ==
  /\ pc = "file"
  /\ SegNoOfName(context.sqlFileName) >= 1
  /\ Cardinality(target.advanced) >= 2
  /\ \E k \in DOMAIN ops :
       /\ ops[k].op = "COMMIT" /\ ops[k].kind = "COMMIT" /\ ops[k].ok
       /\ XLByteToSeg(ops[k].lsn, WalSegSz) = SegNoOfName(context.sqlFileName)

(***************************************************************************)
(* C14 -- No transaction is lost on resume: after any restart or re-read   *)
(* of a growing file, a transaction that had not been committed on the     *)
(* target is applied exactly once: no DML line is committed twice, and the *)
(* start-position gate never skips a BEGIN, DML or COMMIT line of a        *)
(* transaction that was not yet committed on the target.                   *)
(***************************************************************************)
C14_NoTransactionLost ==
  [][/\ \A l \in LSNs : target'.rows[l] <= 1
     /\ (/\ InFileLoop
         /\ CurrentLine.kind \in {"BEGIN", "COMMIT"} \cup DMLActions
         /\ pc' = "file"
         /\ content'.i = content.i + 1
         /\ ~context'.reachedEndPos
         /\ ops' = <<>>)
          => CurrentLine.xid \in target.advanced]_vars

(***************************************************************************)
(* C15 -- Statement failure is fatal and not skipped: when begin,          *)
(* originXactSetup, a DML execute or the COMMIT fails at a line, no later  *)
(* statement is sent, stream_apply_file and the driver return failure      *)
(* without a sentinel sync or another file, and nothing of the transaction *)
(* in progress becomes durable: origin and rows are unchanged.             *)
(***************************************************************************)
C15_StatementFailureIsFatal ==
  [][/\ (\E k \in DOMAIN ops' : ~ops'[k].ok /\ ops'[k].op # "syncSentinel")
          => /\ ~ops'[Len(ops')].ok
             /\ \A k \in 1 .. Len(ops') - 1 : ops'[k].ok
             /\ pc' = "failed"
             /\ target'.origin = target.origin
             /\ target'.rows = target.rows
             /\ target'.advanced = target.advanced
             /\ ~target'.inXact
     /\ (pc = "failed" /\ run'.restarts = run.restarts)
          => /\ pc' = "failed"
             /\ ops' = <<>>
             /\ target' = target]_vars

\* a DML statement failed inside an open transaction with pending rows
C15_Witness ==
  /\ pc = "failed"
  /\ ops # <<>>
  /\ ops[Len(ops)].op = "execute"
  /\ ~ops[Len(ops)].ok
  /\ ops[Len(ops)].inXact
  /\ target.origin > InvalidXLogRecPtr

(***************************************************************************)
(* C16 -- Apply gate: in prefetch mode nothing is done on the target       *)
(* database before a sentinel read has returned apply = true; while the    *)
(* read fails or returns apply = false the driver only polls again, and    *)
(* the origin bootstrap starts with apply set in the context.              *)
(***************************************************************************)
C16_ApplyGate ==
  [][/\ (specs.mode = "prefetch" /\ pc = "wait" /\ run'.restarts = run.restarts)
          => /\ target' = target
             /\ ~target'.connected
             /\ ops' = <<>>
             /\ pc' \in {"wait", "setup", "failed"}
             /\ pc' = "setup" => context'.apply
             /\ (pc' = "wait" /\ ~ShutdownRequested') => context' = ZeroContext
     /\ (specs.mode = "prefetch" /\ pc' = "setup") => pc \in {"wait", "setup"} \/ run'.restarts # run.restarts
     /\ (specs.mode = "prefetch" /\ pc = "setup" /\ run'.restarts = run.restarts
           /\ pc' = "loop") => context.apply]_vars

\* in prefetch mode the gate was passed and a transaction has been begun
C16_Witness ==
  /\ specs.mode = "prefetch"
  /\ pc = "file"
  /\ target.connected
  /\ \E k \in DOMAIN ops : ops[k].op = "begin" /\ ops[k].ok

(***************************************************************************)
(* C17 -- A failed sentinel sync changes nothing: when the sync fails the  *)
(* driver continues and the context's endpos, startpos and apply keep the  *)
(* values they had before the call.                                        *)
(***************************************************************************)
C17_FailedSyncChangesNothing ==
  [][(\E k \in DOMAIN ops' : ops'[k].op = "syncSentinel" /\ ~ops'[k].ok)
       => /\ pc' \in {"loop", "done"}
          /\ context'.endpos = context.endpos
          /\ context'.startpos = context.startpos
          /\ context'.apply = context.apply]_vars

C19_StartposLowerBound ==
  \A k \in DOMAIN ops :
    (ops[k].op = "begin" /\ ops[k].kind = "BEGIN"
       /\ context.startpos # InvalidXLogRecPtr)
      => ops[k].lsn >= context.startpos

(***************************************************************************)
(* C20 -- Reported progress is durable progress: every replay_lsn sent to  *)
(* the sentinel is less than or equal to the origin position recorded on   *)
(* the target at that moment.                                              *)
(***************************************************************************)
C20_ReplayLSNIsDurable ==
  \A k \in DOMAIN ops :
    (ops[k].op = "syncSentinel" /\ ops[k].ok) => ops[k].lsn <= target.origin

(***************************************************************************)
(* The applier under the hypotheses of termination: no statement, read or  *)
(* bootstrap fails, no shutdown signal is raised and a sentinel sync       *)
(* leaves the context's endpos as it is.  The driver is a sequential loop  *)
(* of one process, so its next step is eventually taken (weak fairness);   *)
(* the producer may stop at any point and a restart may or may not come.   *)
(***************************************************************************)
ApplierLive ==
  \/ stream_apply_wait_for_sentinel /\ pc' # "failed"
  \/ setupReplicationOrigin /\ pc' # "failed"
  \/ catchup_wait_for_file
  \/ stream_apply_file_read /\ pc' # "failed"
  \/ stream_apply_file_switch /\ pc' # "failed"
  \/ stream_apply_file_begin /\ pc' # "failed"
  \/ stream_apply_file_commit /\ pc' # "failed"
  \/ stream_apply_file_keepalive /\ pc' # "failed"
  \/ stream_apply_file_dml /\ pc' # "failed"
  \/ catchup_after_file /\ context'.endpos = context.endpos

LiveNext ==
  \/ ProduceBegin
  \/ ProduceDML
  \/ ProduceCommit
  \/ ProduceKeepalive
  \/ ProduceSwitch
  \/ ApplierLive
  \/ restart

LiveSpec == Init /\ [][LiveNext]_vars /\ WF_vars(ApplierLive)

\* an endpos is in force in the driver's loop and the producer has written
\* a BEGIN, COMMIT, KEEPALIVE or SWITCH line at or beyond it
EndposRecordWritten ==
  /\ pc \in {"loop", "file"}
  /\ context.endpos # InvalidXLogRecPtr
  /\ \E x \in AllLines :
       /\ x.kind \in {"BEGIN", "COMMIT", "KEEPALIVE", "SWITCH"}
       /\ x.lsn >= context.endpos

(***************************************************************************)
(* C21 -- Termination at endpos: when a non-zero endpos is in force and    *)
(* the producer has written a record whose LSN is >= endpos, then, with no *)
(* failure and the sentinel leaving endpos unchanged, the driver           *)
(* eventually sets reachedEndPos, closes the target session and returns    *)
(* success (unless the process is started again, which clears endpos).     *)
(***************************************************************************)
C21_TerminationAtEndpos ==
  EndposRecordWritten ~>
    \/ pc = "done" /\ context.reachedEndPos /\ ~target.connected
    \/ context.endpos = InvalidXLogRecPtr

====
